---- MODULE Spec2Model ----
(***************************************************************************)
(* Model of the DGA detection service (dga.py behind async.py) and of the  *)
(* command line evaluator (dga_model_eval.py).                             *)
(*                                                                         *)
(* Strings are sequences of one-character strings.  Floating point values  *)
(* (entropy, log10 n-gram weights) are fixed-point integers.               *)
(***************************************************************************)
EXTENDS Integers, Sequences, FiniteSets, TLC

(***************************************************************************)
(* Bounds of the model.                                                    *)
(***************************************************************************)
MaxRequests == 2
MaxList == 2
MaxStr == 3

(***************************************************************************)
(* Program constants.                                                      *)
(***************************************************************************)
NGramMin == 3
NGramMax == 5

(***************************************************************************)
(* Host strings a client may send.                                         *)
(***************************************************************************)
HostSub == <<"w", ".", "a", "b", "c", "d", ".", "i", "o">>
HostUrl == <<"h", "t", "t", "p", ":", "/", "/", "a", "b", "c", "d", ".", "i", "o", "/", "x">>
HostEmpty == <<>>
HostBare == <<"a", "b", "c", "a", "b", "c">>
Hosts == {HostSub, HostUrl, HostEmpty, HostBare}

Letters == {"a", "b", "c", "d", "h", "i", "o", "p", "t", "w", "x"}

(***************************************************************************)
(* Generic sequence helpers.                                               *)
(***************************************************************************)
RECURSIVE SumSeq(_)
SumSeq(s) == IF s = <<>> THEN 0 ELSE Head(s) + SumSeq(Tail(s))

Range(s) == {s[i] : i \in 1..Len(s)}

Last(s) == s[Len(s)]

\* position of the first occurrence of sub in s, 0 when there is none
FirstPos(s, sub) ==
    LET ps == {p \in 1..(Len(s) - Len(sub) + 1) : SubSeq(s, p, p + Len(sub) - 1) = sub}
    IN IF ps = {} THEN 0 ELSE CHOOSE p \in ps : \A q \in ps : p <= q

\* the part of s before the first occurrence of the character c (str.partition)
Before(s, c) ==
    LET p == FirstPos(s, <<c>>)
    IN IF p = 0 THEN s ELSE SubSeq(s, 1, p - 1)

RECURSIVE Split(_, _)
Split(s, c) ==
    LET p == FirstPos(s, <<c>>)
    IN IF p = 0 THEN <<s>>
       ELSE <<SubSeq(s, 1, p - 1)>> \o Split(SubSeq(s, p + 1, Len(s)), c)

(***************************************************************************)
(* tldextract.extract(url).domain: the scheme, path, query, fragment and   *)
(* port are dropped, the host is split into labels, the longest public     *)
(* suffix is removed and the label left of it is the domain.  With no      *)
(* recognised suffix the last label is the domain.                         *)
(***************************************************************************)
PublicSuffixes == {<<<<"i", "o">>>>, <<<<"c", "o">>, <<"i", "o">>>>}

StripScheme(url) ==
    LET p == FirstPos(url, <<":", "/", "/">>)
    IN IF p > 1 /\ Range(SubSeq(url, 1, p - 1)) \subseteq Letters
       THEN SubSeq(url, p + 3, Len(url))
       ELSE IF Len(url) >= 2 /\ SubSeq(url, 1, 2) = <<"/", "/">>
            THEN SubSeq(url, 3, Len(url))
            ELSE url

Netloc(url) == Before(Before(Before(Before(StripScheme(url), "/"), "?"), "#"), ":")

SuffixIndex(labels) ==
    LET is == {i \in 1..Len(labels) : SubSeq(labels, i, Len(labels)) \in PublicSuffixes}
    IN IF is = {} THEN Len(labels) + 1 ELSE CHOOSE i \in is : \A j \in is : i <= j

domain_extract(url) ==
    LET labels == Split(Netloc(url), ".")
        i == SuffixIndex(labels)
    IN IF i > Len(labels) THEN Last(labels)
       ELSE IF i = 1 THEN <<>>
       ELSE labels[i - 1]

(***************************************************************************)
(* Shannon entropy of a string in thousandths of a bit.  Log2[n] is        *)
(* log2(n) in thousandths.                                                 *)
(***************************************************************************)
Log2 == <<0, 1000, 1585, 2000, 2322, 2585, 2807, 3000>>

\* collections.Counter(s)
Counter(s) == [c \in Range(s) |-> Cardinality({i \in 1..Len(s) : s[i] = c})]

\* count / ln * math.log(count / ln, 2)
EntropyTerm_count(count, ln) == (count * (0 - Log2[count])) \div ln
EntropyTerm(count, ln) == (count * (Log2[count] - Log2[ln])) \div ln

RECURSIVE SumOver(_, _, _)
SumOver(p, keys, ln) ==
    IF keys = {} THEN 0
    ELSE LET c == CHOOSE k \in keys : TRUE
         IN EntropyTerm(p[c], ln) + SumOver(p, keys \ {c}, ln)

entropy(s) ==
    LET p == Counter(s)
        ln == Len(s)
    IN 0 - SumOver(p, DOMAIN p, ln)

(***************************************************************************)
(* The five trained artifacts as they are on disk.  A vectorizer is its    *)
(* vocabulary in feature order, a counts artifact is the weight vector     *)
(* aligned with it index for index, the classifier is a decision function  *)
(* over the feature vector.                                                *)
(***************************************************************************)
Artifacts == {"clf", "alexa_vc", "alexa_counts", "dict_vc", "dict_counts"}

None == [tag |-> "None"]

AlexaVocabulary == << <<"a", "b", "c">>, <<"b", "c", "d">>, <<"a", "b", "c", "d">>, <<"w", ".", "a">> >>
AlexaWeights == <<3, 2, 2, 1>>
DictVocabulary == << <<"a", "b", "c">>, <<"h", "t", "t">>, <<"t", "t", "p">>, <<"h", "t", "t", "p">> >>
DictWeights == <<1, 2, 1, 2>>

OnDisk(name) ==
    CASE name = "clf" -> [tag |-> "clf"]
      [] name = "alexa_vc" -> [tag |-> "vc", vocabulary |-> AlexaVocabulary]
      [] name = "alexa_counts" -> [tag |-> "counts", weights |-> AlexaWeights]
      [] name = "dict_vc" -> [tag |-> "vc", vocabulary |-> DictVocabulary]
      [] name = "dict_counts" -> [tag |-> "counts", weights |-> DictWeights]

\* the outcome of a call: a value or a raised exception
Ok(v) == [ok |-> TRUE, val |-> v]
Raised == [ok |-> FALSE]

(***************************************************************************)
(* CountVectorizer(analyzer='char', ngram_range=(3, 5)).transform([text]): *)
(* for every vocabulary entry the number of its occurrences in text.       *)
(***************************************************************************)
NGramCount(text, gram) ==
    IF Len(gram) \in NGramMin..NGramMax
    THEN Cardinality({p \in 1..(Len(text) - Len(gram) + 1) :
                         SubSeq(text, p, p + Len(gram) - 1) = gram})
    ELSE 0

transform(vc, text) ==
    IF vc = None THEN Raised
    ELSE Ok([i \in 1..Len(vc.vocabulary) |-> NGramCount(text, vc.vocabulary[i])])

\* counts * vc.transform([text]).T
ngram_match(counts, vc, text) ==
    LET v == transform(vc, text)
    IN IF ~v.ok \/ counts = None THEN Raised
       ELSE Ok(SumSeq([i \in 1..Len(v.val) |-> counts.weights[i] * v.val[i]]))

\* clf.predict(X)[0] for one feature row X
clf_predict(clf, X) ==
    IF clf = None THEN Raised
    ELSE Ok(IF X[1] = 0 THEN "legit"
            ELSE IF X[2] >= 2500 THEN "dga"
            ELSE IF X[3] >= 5 /\ X[4] <= 3 THEN "legit"
            ELSE "dga")

\* the feature row evaluate_url assembles
feature_row_swapped(domain, alexa_match, dict_match) ==
    <<entropy(domain), Len(domain), alexa_match, dict_match>>
feature_row(domain, alexa_match, dict_match) ==
    <<Len(domain), entropy(domain), alexa_match, dict_match>>

(***************************************************************************)
(* State of the service process.                                           *)
(***************************************************************************)
VARIABLES
    model,        \* the artifact bundle: artifact name -> artifact or None
    pc,           \* position of the process: "load", "idle" or the step of
                  \* evaluate_url the event loop thread is executing
    requests,     \* the /apply requests in arrival order, with their responses
    cur,          \* index of the request whose handler is running, 0 if none
    cache,        \* the lru_cache of predict: host string -> label
    domain,       \* locals of the running evaluate_url call
    alexa_match,
    dict_match,
    X,
    y_pred,
    calls,        \* number of evaluate_url invocations per host so far
    returns,      \* number of evaluate_url invocations per host that returned
    ev            \* state of the command line evaluator (dga_model_eval.py)

srv_vars == <<pc, requests, cur, cache, domain, alexa_match, dict_match, X, y_pred, calls, returns>>
vars == <<model, pc, requests, cur, cache, domain, alexa_match, dict_match, X, y_pred, calls, returns, ev>>

LoadOrder == <<"clf", "alexa_vc", "alexa_counts", "dict_vc", "dict_counts">>

\* GET /apply?host=h and GET /apply without a host parameter
Queries == {[host |-> h] : h \in Hosts} \cup {<<>>}

HasHost(q) == "host" \in DOMAIN q

NoLocals ==
    /\ domain' = <<>>
    /\ alexa_match' = 0
    /\ dict_match' = 0
    /\ X' = <<>>
    /\ y_pred' = ""

EvIdle == [pc |-> "off"]

Init ==
    /\ model = <<>>
    /\ pc = "load"
    /\ requests = <<>>
    /\ cur = 0
    /\ cache = <<>>
    /\ domain = <<>>
    /\ alexa_match = 0
    /\ dict_match = 0
    /\ X = <<>>
    /\ y_pred = ""
    /\ calls = [h \in Hosts |-> 0]
    /\ returns = [h \in Hosts |-> 0]
    /\ ev = EvIdle

(***************************************************************************)
(* DGA.__init__ and _load_model_from_disk: each artifact is unpickled in   *)
(* turn; a load that fails yields None and construction goes on.           *)
(***************************************************************************)
load_model_from_disk(name, readable) == IF readable THEN OnDisk(name) ELSE None

Loaded == Len(model) = Len(LoadOrder)

\* self.model[name]
Artifact(name) == model[CHOOSE i \in 1..Len(LoadOrder) : LoadOrder[i] = name]

LoadArtifact ==
    /\ pc = "load"
    /\ ~Loaded
    /\ \E readable \in BOOLEAN :
          model' = Append(model, load_model_from_disk(LoadOrder[Len(model) + 1], readable))
    /\ UNCHANGED <<srv_vars, ev>>

\* web.run_app: the event loop starts serving once the bundle is built
RunApp ==
    /\ pc = "load"
    /\ Loaded
    /\ pc' = "idle"
    /\ UNCHANGED <<model, requests, cur, cache, domain, alexa_match, dict_match, X, y_pred, calls, returns, ev>>

(***************************************************************************)
(* A client sends a request.  It waits until the event loop runs its       *)
(* handler.                                                                *)
(***************************************************************************)
Arrive ==
    /\ pc # "load"
    /\ Len(requests) < MaxRequests
    /\ \E q \in Queries :
          requests' = Append(requests,
              [query |-> q, state |-> "pending", status |-> 0, body |-> "", hit |-> FALSE])
    /\ UNCHANGED <<model, pc, cur, cache, domain, alexa_match, dict_match, X, y_pred, calls, returns, ev>>

Respond(r, status, body, hit) ==
    requests' = [requests EXCEPT ![r] =
        [@ EXCEPT !.state = "done", !.status = status, !.body = body, !.hit = hit]]

\* the event loop can start the handler of request r
CanHandle(r) ==
    /\ pc = "idle"
    /\ r \in 1..Len(requests)
    /\ requests[r].state = "pending"

\* status of the response aiohttp sends when the handler raises
HandlerRaised == 500

\* line 17: request.rel_url.query['host'] raises KeyError
ApplyMissingHost(r) ==
    /\ CanHandle(r)
    /\ ~HasHost(requests[r].query)
    /\ Respond(r, HandlerRaised, "", FALSE)
    /\ UNCHANGED <<model, pc, cur, cache, domain, alexa_match, dict_match, X, y_pred, calls, returns, ev>>

\* the key lru_cache files a call of predict(host) under: its argument
make_key_domain(host) == domain_extract(host)
make_key(host) == host

\* predict(h) answered by the lru_cache
ApplyHit(r) ==
    /\ CanHandle(r)
    /\ HasHost(requests[r].query)
    /\ make_key(requests[r].query.host) \in DOMAIN cache
    /\ Respond(r, 200, cache[make_key(requests[r].query.host)], TRUE)
    /\ UNCHANGED <<model, pc, cur, cache, domain, alexa_match, dict_match, X, y_pred, calls, returns, ev>>

\* predict(h) misses the cache and calls dga.evaluate_url(h)
ApplyMiss(r) ==
    /\ CanHandle(r)
    /\ HasHost(requests[r].query)
    /\ make_key(requests[r].query.host) \notin DOMAIN cache
    /\ requests' = [requests EXCEPT ![r].state = "active"]
    /\ cur' = r
    /\ pc' = "extract"
    /\ calls' = [calls EXCEPT ![requests[r].query.host] = @ + 1]
    /\ UNCHANGED <<model, cache, domain, alexa_match, dict_match, X, y_pred, returns, ev>>

url == requests[cur].query.host

\* the lru_cache after the wrapped call raised: the exception passes through
\* the wrapper before anything is stored
lru_raise_memo(c, key) == [k \in DOMAIN c \cup {key} |-> IF k = key THEN "legit" ELSE c[k]]
lru_raise(c, key) == c

\* the bundle after evaluate_url raised: self.model is only read, a missing
\* artifact is not loaded again
model_reloaded(m) == [i \in 1..Len(m) |-> IF m[i] = None THEN OnDisk(LoadOrder[i]) ELSE m[i]]
model_after_raise(m) == m

\* an exception leaves evaluate_url, predict and apply
Raise ==
    /\ Respond(cur, HandlerRaised, "", FALSE)
    /\ cache' = lru_raise(cache, make_key(url))
    /\ model' = model_after_raise(model)
    /\ pc' = "idle"
    /\ cur' = 0
    /\ NoLocals
    /\ UNCHANGED <<calls, returns, ev>>

\* the text evaluate_url hands to both vectorizers: transform([url])
corpus_text_domain(u, d) == d
corpus_text(u, d) == u

EvalDomainExtract ==
    /\ pc = "extract"
    /\ domain' = domain_extract(url)
    /\ pc' = "alexa"
    /\ UNCHANGED <<model, requests, cur, cache, alexa_match, dict_match, X, y_pred, calls, returns, ev>>

EvalAlexaMatch ==
    /\ pc = "alexa"
    /\ LET m == ngram_match(Artifact("alexa_counts"), Artifact("alexa_vc"), corpus_text(url, domain))
       IN IF m.ok
          THEN /\ alexa_match' = m.val
               /\ pc' = "dict"
               /\ UNCHANGED <<model, requests, cur, cache, domain, dict_match, X, y_pred, calls, returns, ev>>
          ELSE Raise

EvalDictMatch ==
    /\ pc = "dict"
    /\ LET m == ngram_match(Artifact("dict_counts"), Artifact("dict_vc"), corpus_text(url, domain))
       IN IF m.ok
          THEN /\ dict_match' = m.val
               /\ pc' = "assemble"
               /\ UNCHANGED <<model, requests, cur, cache, domain, alexa_match, X, y_pred, calls, returns, ev>>
          ELSE Raise

EvalAssemble ==
    /\ pc = "assemble"
    /\ X' = feature_row(domain, alexa_match, dict_match)
    /\ pc' = "predict"
    /\ UNCHANGED <<model, requests, cur, cache, domain, alexa_match, dict_match, y_pred, calls, returns, ev>>

EvalPredict ==
    /\ pc = "predict"
    /\ LET y == clf_predict(Artifact("clf"), X)
       IN IF y.ok
          THEN /\ y_pred' = y.val
               /\ pc' = "return"
               /\ UNCHANGED <<model, requests, cur, cache, domain, alexa_match, dict_match, X, calls, returns, ev>>
          ELSE Raise

\* lru_cache(maxsize=None): the returned value is stored under the key
lru_store_none(c, key, result) == c
lru_store_evict(c, key, result) == [k \in {key} |-> result]
lru_store(c, key, result) == [k \in DOMAIN c \cup {key} |-> IF k = key THEN result ELSE c[k]]

\* evaluate_url returns; predict memoizes the label; apply sends the response
PredictReturn ==
    /\ pc = "return"
    /\ cache' = lru_store(cache, make_key(url), y_pred)
    /\ returns' = [returns EXCEPT ![url] = @ + 1]
    /\ Respond(cur, 200, y_pred, FALSE)
    /\ pc' = "idle"
    /\ cur' = 0
    /\ NoLocals
    /\ UNCHANGED <<model, calls, ev>>

Next ==
    \/ LoadArtifact
    \/ RunApp
    \/ Arrive
    \/ \E r \in 1..MaxRequests : ApplyMissingHost(r)
    \/ \E r \in 1..MaxRequests : ApplyHit(r)
    \/ \E r \in 1..MaxRequests : ApplyMiss(r)
    \/ EvalDomainExtract
    \/ EvalAlexaMatch
    \/ EvalDictMatch
    \/ EvalAssemble
    \/ EvalPredict
    \/ PredictReturn

Spec == Init /\ [][Next]_vars

(***************************************************************************)
(* Derived notions used by the properties.                                 *)
(***************************************************************************)
Reqs == 1..Len(requests)

Done(r) == requests[r].state = "done"

\* the requests that carry the host string h
For(h) == {r \in Reqs : HasHost(requests[r].query) /\ requests[r].query.host = h}

\* a request whose handler got as far as calling evaluate_url
Invoked(r) == requests[r].state = "active" \/ (Done(r) /\ ~requests[r].hit)

PartialBundle == Loaded /\ \E i \in 1..Len(model) : model[i] = None

\* evaluate_url(url) as one function of the loaded bundle
evaluate_url(u) ==
    LET d == domain_extract(u)
        am == ngram_match(Artifact("alexa_counts"), Artifact("alexa_vc"), u)
        dm == ngram_match(Artifact("dict_counts"), Artifact("dict_vc"), u)
    IN IF ~am.ok \/ ~dm.ok THEN Raised
       ELSE clf_predict(Artifact("clf"), <<Len(d), entropy(d), am.val, dm.val>>)

(***************************************************************************)
(* C1 (as stated): for every host string, evaluate_url is invoked at most  *)
(* once in the process lifetime, exactly once if the host was requested    *)
(* and handled, and every handled request for it returns the result of     *)
(* that invocation.                                                        *)
(***************************************************************************)
C1_InvokedAtMostOnce ==
    \A h \in Hosts :
        /\ calls[h] <= 1
        /\ (\E r \in For(h) : Invoked(r) \/ Done(r)) => calls[h] = 1
        /\ \A r \in For(h) : (Done(r) /\ requests[r].status = 200) =>
              /\ h \in DOMAIN cache
              /\ requests[r].body = cache[h]

(***************************************************************************)
(* C1 (amended): for every host string, evaluate_url returns a label at    *)
(* most once in the process lifetime.  Every request for the host that is  *)
(* handled before that return invokes evaluate_url anew (an invocation     *)
(* that raised is not memoized), no request handled after it does, and     *)
(* every successful response for the host carries the label of that one    *)
(* returning invocation.                                                   *)
(***************************************************************************)
C1_ReturnsAtMostOnce ==
    \A h \in Hosts :
        /\ returns[h] <= 1
        /\ returns[h] = 1 <=> h \in DOMAIN cache
        /\ calls[h] = Cardinality({r \in For(h) : Invoked(r)})
        /\ Cardinality({r \in For(h) : Done(r) /\ requests[r].status = 200 /\ ~requests[r].hit}) = returns[h]
        /\ \A r \in For(h) : (Done(r) /\ requests[r].status = 200) =>
              /\ h \in DOMAIN cache
              /\ requests[r].body = cache[h]

\* two requests for the same host were answered from one invocation
C1_Witness ==
    \E r1, r2 \in Reqs :
        /\ r1 # r2
        /\ HasHost(requests[r1].query)
        /\ r2 \in For(requests[r1].query.host)
        /\ Done(r1) /\ requests[r1].status = 200 /\ ~requests[r1].hit
        /\ Done(r2) /\ requests[r2].status = 200 /\ requests[r2].hit
        /\ calls[requests[r1].query.host] = 1

(***************************************************************************)
(* C2: the memo table only grows: a key that has a label keeps that label  *)
(* in every later state, whatever other keys are requested afterwards.     *)
(***************************************************************************)
C2_CacheOnlyGrows ==
    [][\A k \in DOMAIN cache : k \in DOMAIN cache' /\ cache'[k] = cache[k]]_vars

\* a second distinct key was stored next to an earlier one
C2_Witness == Cardinality(DOMAIN cache) >= 2

(***************************************************************************)
(* C3: when evaluate_url raises during a request, the cache is left as it  *)
(* was and holds no entry for the key; every answer served from the cache  *)
(* is the label of an invocation that returned.                            *)
(***************************************************************************)
C3_FailureNotMemoized ==
    /\ [][(cur # 0 /\ cur' = 0 /\ requests'[cur].status = HandlerRaised) =>
            (cache' = cache /\ make_key(url) \notin DOMAIN cache')]_vars
    /\ [](\A r \in Reqs : (Done(r) /\ requests[r].hit) =>
            /\ returns[requests[r].query.host] >= 1
            /\ evaluate_url(requests[r].query.host).ok)

\* a request failed inside evaluate_url and a later one for the same key was
\* computed again rather than answered from the cache
C3_Witness ==
    \E r1, r2 \in Reqs :
        /\ r1 # r2
        /\ HasHost(requests[r1].query)
        /\ r2 \in For(requests[r1].query.host)
        /\ Done(r1) /\ requests[r1].status = HandlerRaised
        /\ Done(r2) /\ requests[r2].status = HandlerRaised /\ ~requests[r2].hit
        /\ make_key(requests[r1].query.host) \notin DOMAIN cache

(***************************************************************************)
(* C4 (as stated): a request without a host parameter gets a client-error  *)
(* response that differs from the response to an internal failure, and it  *)
(* neither invokes evaluate_url nor changes the cache.                     *)
(***************************************************************************)
C4_MissingHostIsClientError ==
    \A r \in Reqs : (Done(r) /\ ~HasHost(requests[r].query)) =>
        /\ requests[r].status \in 400..499
        /\ requests[r].status # HandlerRaised

(***************************************************************************)
(* C5 (as stated): with a bundle in which an artifact failed to load,      *)
(* no request gets a label and no step of the inference that uses the      *)
(* bundle is carried out.                                                  *)
(***************************************************************************)
C5_PartialBundleFailsFast ==
    PartialBundle =>
        /\ \A r \in Reqs : Done(r) => requests[r].status # 200
        /\ pc \notin {"dict", "assemble", "predict", "return"}

(***************************************************************************)
(* C6 (as stated): while evaluate_url runs for one request, the handler of *)
(* a waiting request for a different key can be started.                   *)
(***************************************************************************)
C6_OtherRequestsProgress ==
    \A r \in Reqs :
        (/\ cur # 0
         /\ requests[r].state = "pending"
         /\ HasHost(requests[r].query)
         /\ requests[r].query.host # url) => CanHandle(r)

(***************************************************************************)
(* C7: the cache is keyed by the raw host string: its keys are exactly the *)
(* host strings of the requests that were answered with a label, and each  *)
(* of them had its own evaluate_url call, also when two of them have the   *)
(* same second-level domain.                                               *)
(***************************************************************************)
C7_KeyedByRawHost ==
    /\ DOMAIN cache = {h \in Hosts : \E r \in For(h) : Done(r) /\ requests[r].status = 200}
    /\ \A h \in Hosts : (\E r \in For(h) : Done(r) /\ requests[r].status = 200) =>
          /\ returns[h] = 1
          /\ \E r \in For(h) : Done(r) /\ ~requests[r].hit

\* two different host strings with one second-level domain, each with an entry
C7_Witness ==
    /\ domain_extract(HostSub) = domain_extract(HostUrl)
    /\ {HostSub, HostUrl} \subseteq DOMAIN cache
    /\ returns[HostSub] = 1
    /\ returns[HostUrl] = 1

(***************************************************************************)
(* C8: the label of every successful response for host h equals            *)
(* evaluate_url(h) under the loaded bundle, whether it came from the cache *)
(* or was computed; two successful responses for one host agree.           *)
(***************************************************************************)
C8_LabelIsEvaluateUrl ==
    /\ \A r \in Reqs : (Done(r) /\ requests[r].status = 200) =>
          requests[r].body = evaluate_url(requests[r].query.host).val
    /\ \A r1, r2 \in Reqs :
          (/\ Done(r1) /\ requests[r1].status = 200
           /\ Done(r2) /\ requests[r2].status = 200
           /\ requests[r1].query.host = requests[r2].query.host) =>
              requests[r1].body = requests[r2].body

\* a freshly computed and a cached response for one host
C8_Witness ==
    \E r1, r2 \in Reqs :
        /\ r1 # r2
        /\ Done(r1) /\ requests[r1].status = 200 /\ ~requests[r1].hit
        /\ Done(r2) /\ requests[r2].status = 200 /\ requests[r2].hit
        /\ requests[r1].query.host = HostUrl
        /\ requests[r2].query.host = HostUrl

(***************************************************************************)
(* C9: the vector handed to the classifier is [length(d), entropy(d),      *)
(* alexa score of url, dict score of url] in that order, d being the       *)
(* extracted domain of url.                                                *)
(***************************************************************************)
C9_FeatureVector ==
    pc = "predict" =>
        X = << Len(domain_extract(url)),
               entropy(domain_extract(url)),
               ngram_match(Artifact("alexa_counts"), Artifact("alexa_vc"), url).val,
               ngram_match(Artifact("dict_counts"), Artifact("dict_vc"), url).val >>

\* the classifier is about to be called for a url that differs from its domain
C9_Witness ==
    /\ pc = "predict"
    /\ url = HostSub
    /\ X = <<4, 2000, 8, 1>>

(***************************************************************************)
(* The command line evaluator, dga_model_eval.py: evaluate_url for one url *)
(* and evaluate_url_list for a list of urls, over the bundle main() loads. *)
(***************************************************************************)
UrlLists == UNION {[1..n -> Hosts] : n \in 0..MaxList}

NotCalled == [called |-> FALSE]

EvInit ==
    [pc |-> "load", url_list |-> <<>>, single |-> <<>>,
     domain_list |-> <<>>, domain_length |-> <<>>, domain_entropy |-> <<>>,
     alexa_matches |-> <<>>, dict_matches |-> <<>>, X |-> <<>>, y_pred |-> <<>>]

InitEval ==
    /\ model = <<>>
    /\ pc = "off"
    /\ requests = <<>>
    /\ cur = 0
    /\ cache = <<>>
    /\ domain = <<>>
    /\ alexa_match = 0
    /\ dict_match = 0
    /\ X = <<>>
    /\ y_pred = ""
    /\ calls = [h \in Hosts |-> 0]
    /\ returns = [h \in Hosts |-> 0]
    /\ ev = EvInit

\* main: the five load_model_from_disk calls
MainLoadModel ==
    /\ ev.pc = "load"
    /\ ~Loaded
    /\ \E readable \in BOOLEAN :
          model' = Append(model, load_model_from_disk(LoadOrder[Len(model) + 1], readable))
    /\ UNCHANGED <<srv_vars, ev>>

\* main: url_list = [url.strip() for url in input_urls]
MainReadUrls ==
    /\ ev.pc = "load"
    /\ Loaded
    /\ \E L \in UrlLists :
          ev' = [ev EXCEPT !.pc = "domain_list", !.url_list = L,
                           !.single = [i \in 1..Len(L) |-> NotCalled]]
    /\ UNCHANGED <<model, srv_vars>>

\* evaluate_url(model, url): the feature row and the label, or an exception
evaluate_url_single(u) ==
    LET d == domain_extract(u)
        am == ngram_match(Artifact("alexa_counts"), Artifact("alexa_vc"), u)
        dm == ngram_match(Artifact("dict_counts"), Artifact("dict_vc"), u)
        row == <<Len(d), entropy(d), am.val, dm.val>>
    IN IF ~am.ok \/ ~dm.ok \/ ~clf_predict(Artifact("clf"), row).ok
       THEN [called |-> TRUE, ok |-> FALSE]
       ELSE [called |-> TRUE, ok |-> TRUE, X |-> row,
             y_pred |-> clf_predict(Artifact("clf"), row).val]

CallEvaluateUrl(i) ==
    /\ ev.pc # "load"
    /\ i \in 1..Len(ev.url_list)
    /\ ~ev.single[i].called
    /\ ev' = [ev EXCEPT !.single[i] = evaluate_url_single(ev.url_list[i])]
    /\ UNCHANGED <<model, srv_vars>>

\* domain_list = [domain_extract(url) for url in url_list]
ListDomains ==
    /\ ev.pc = "domain_list"
    /\ ev' = [ev EXCEPT !.pc = "domain_length",
                        !.domain_list = [i \in 1..Len(ev.url_list) |-> domain_extract(ev.url_list[i])]]
    /\ UNCHANGED <<model, srv_vars>>

\* domain_length = [len(domain) for domain in domain_list]
ListLengths ==
    /\ ev.pc = "domain_length"
    /\ ev' = [ev EXCEPT !.pc = "domain_entropy",
                        !.domain_length = [i \in 1..Len(ev.domain_list) |-> Len(ev.domain_list[i])]]
    /\ UNCHANGED <<model, srv_vars>>

\* domain_entropy = [entropy(domain) for domain in domain_list]
ListEntropies ==
    /\ ev.pc = "domain_entropy"
    /\ ev' = [ev EXCEPT !.pc = "alexa_matches",
                        !.domain_entropy = [i \in 1..Len(ev.domain_list) |-> entropy(ev.domain_list[i])]]
    /\ UNCHANGED <<model, srv_vars>>

\* counts * vc.transform(texts).T: the weight vector times the count matrix
ngram_matches_binary(counts, vc, texts) ==
    IF vc = None \/ counts = None THEN Raised
    ELSE LET M == [i \in 1..Len(texts) |->
                     [j \in 1..Len(vc.vocabulary) |->
                        IF NGramCount(texts[i], vc.vocabulary[j]) > 0 THEN 1 ELSE 0]]
         IN Ok([i \in 1..Len(texts) |->
                   SumSeq([j \in 1..Len(vc.vocabulary) |-> counts.weights[j] * M[i][j]])])
ngram_matches(counts, vc, texts) ==
    IF vc = None \/ counts = None THEN Raised
    ELSE LET M == [i \in 1..Len(texts) |->
                     [j \in 1..Len(vc.vocabulary) |-> NGramCount(texts[i], vc.vocabulary[j])]]
         IN Ok([i \in 1..Len(texts) |->
                   SumSeq([j \in 1..Len(vc.vocabulary) |-> counts.weights[j] * M[i][j]])])

ListAlexaMatches ==
    /\ ev.pc = "alexa_matches"
    /\ LET m == ngram_matches(Artifact("alexa_counts"), Artifact("alexa_vc"), ev.url_list)
       IN ev' = IF m.ok THEN [ev EXCEPT !.pc = "dict_matches", !.alexa_matches = m.val]
                ELSE [ev EXCEPT !.pc = "raised"]
    /\ UNCHANGED <<model, srv_vars>>

ListDictMatches ==
    /\ ev.pc = "dict_matches"
    /\ LET m == ngram_matches(Artifact("dict_counts"), Artifact("dict_vc"), ev.url_list)
       IN ev' = IF m.ok THEN [ev EXCEPT !.pc = "X", !.dict_matches = m.val]
                ELSE [ev EXCEPT !.pc = "raised"]
    /\ UNCHANGED <<model, srv_vars>>

\* np.array([...]).T of four columns of equal length
transpose(cols) == [i \in 1..Len(cols[1]) |-> [j \in 1..Len(cols) |-> cols[j][i]]]

\* X = np.array([domain_length, domain_entropy, alexa_matches, dict_matches]); X = X.T
ListAssemble ==
    /\ ev.pc = "X"
    /\ ev' = [ev EXCEPT !.pc = "predict",
                        !.X = transpose(<<ev.domain_length, ev.domain_entropy,
                                          ev.alexa_matches, ev.dict_matches>>)]
    /\ UNCHANGED <<model, srv_vars>>

\* clf.predict(X) for a matrix of feature rows
clf_predict_rows(clf, rows) ==
    IF clf = None THEN Raised
    ELSE Ok([i \in 1..Len(rows) |-> clf_predict(clf, rows[i]).val])

ListPredict ==
    /\ ev.pc = "predict"
    /\ LET y == clf_predict_rows(Artifact("clf"), ev.X)
       IN ev' = IF y.ok THEN [ev EXCEPT !.pc = "done", !.y_pred = y.val]
                ELSE [ev EXCEPT !.pc = "raised"]
    /\ UNCHANGED <<model, srv_vars>>

NextEval ==
    \/ MainLoadModel
    \/ MainReadUrls
    \/ \E i \in 1..MaxList : CallEvaluateUrl(i)
    \/ ListDomains
    \/ ListLengths
    \/ ListEntropies
    \/ ListAlexaMatches
    \/ ListDictMatches
    \/ ListAssemble
    \/ ListPredict

SpecEval == InitEval /\ [][NextEval]_vars

(***************************************************************************)
(* C10: evaluate_url_list agrees with evaluate_url element for element:    *)
(* its output has the length and order of the url list, and row i and      *)
(* label i are the feature row and the label evaluate_url yields for the   *)
(* i-th url; it raises only where evaluate_url raises for every url.       *)
(***************************************************************************)
C10_BatchAgreesWithSingle ==
    /\ ev.pc = "done" =>
          /\ Len(ev.X) = Len(ev.url_list)
          /\ Len(ev.y_pred) = Len(ev.url_list)
          /\ \A i \in 1..Len(ev.url_list) : ev.single[i].called =>
                /\ ev.single[i].ok
                /\ ev.X[i] = ev.single[i].X
                /\ ev.y_pred[i] = ev.single[i].y_pred
    /\ ev.pc = "raised" =>
          \A i \in 1..Len(ev.url_list) : ev.single[i].called => ~ev.single[i].ok

\* a list of two urls with different labels, evaluated both ways
C10_Witness ==
    /\ ev.pc = "done"
    /\ ev.url_list = <<HostUrl, HostBare>>
    /\ \A i \in 1..Len(ev.url_list) : ev.single[i].called
    /\ ev.y_pred = <<"dga", "legit">>

(***************************************************************************)
(* The entropy function run statement by statement, called directly on a   *)
(* string or from evaluate_url on the extracted domain of a url.  The      *)
(* generator divides count by ln once per counted character, and a float   *)
(* division by 0.0 raises ZeroDivisionError.                               *)
(***************************************************************************)
EntropyAlphabet == {"a", "b", "c"}

EntropyStrings == UNION {[1..n -> EntropyAlphabet] : n \in 0..MaxStr}

\* the distinct characters of s in the order of their first occurrence,
\* the iteration order of collections.Counter(s)
RECURSIVE CounterKeys(_)
CounterKeys(s) ==
    IF s = <<>> THEN <<>>
    ELSE LET front == CounterKeys(SubSeq(s, 1, Len(s) - 1))
         IN IF Last(s) \in Range(front) THEN front ELSE Append(front, Last(s))

\* count / ln * math.log(count / ln, 2), or the ZeroDivisionError of count / 0.0
entropy_term(count, ln) == IF ln = 0 THEN Raised ELSE Ok(EntropyTerm(count, ln))

EntInit ==
    [pc |-> "call", via |-> "none", url |-> <<>>, s |-> <<>>, p |-> <<>>, ln |-> 0,
     keys |-> <<>>, acc |-> 0, e |-> 0]

InitEntropy ==
    /\ model = <<>>
    /\ pc = "off"
    /\ requests = <<>>
    /\ cur = 0
    /\ cache = <<>>
    /\ domain = <<>>
    /\ alexa_match = 0
    /\ dict_match = 0
    /\ X = <<>>
    /\ y_pred = ""
    /\ calls = [h \in Hosts |-> 0]
    /\ returns = [h \in Hosts |-> 0]
    /\ ev = EntInit

\* entropy(s) is entered: p, ln = collections.Counter(s), float(len(s))
EntropyEnter(via, u, s) ==
    ev' = [pc |-> "sum", via |-> via, url |-> u, s |-> s, p |-> Counter(s), ln |-> Len(s),
           keys |-> CounterKeys(s), acc |-> 0, e |-> 0]

\* a direct call entropy(s)
CallEntropy ==
    /\ ev.pc = "call"
    /\ \E s \in EntropyStrings : EntropyEnter("entropy", <<>>, s)
    /\ UNCHANGED <<model, srv_vars>>

\* evaluate_url(url): domain = domain_extract(url), then entropy(domain)
CallEntropyOfDomain ==
    /\ ev.pc = "call"
    /\ \E u \in Hosts : EntropyEnter("evaluate_url", u, domain_extract(u))
    /\ UNCHANGED <<model, srv_vars>>

\* the generator yields the term of the next counted character to sum()
EntropyAddTerm ==
    /\ ev.pc = "sum"
    /\ ev.keys # <<>>
    /\ LET t == entropy_term(ev.p[Head(ev.keys)], ev.ln)
       IN ev' = IF t.ok THEN [ev EXCEPT !.keys = Tail(@), !.acc = @ + t.val]
                ELSE [ev EXCEPT !.pc = "raised"]
    /\ UNCHANGED <<model, srv_vars>>

\* the generator is exhausted: e = -sum(...); return e
EntropyReturn ==
    /\ ev.pc = "sum"
    /\ ev.keys = <<>>
    /\ ev' = [ev EXCEPT !.pc = "returned", !.e = 0 - ev.acc]
    /\ UNCHANGED <<model, srv_vars>>

NextEntropy ==
    \/ CallEntropy
    \/ CallEntropyOfDomain
    \/ EntropyAddTerm
    \/ EntropyReturn

SpecEntropy == InitEntropy /\ [][NextEntropy]_vars

(***************************************************************************)
(* C11: entropy never raises on the empty string and returns 0 for it; it  *)
(* returns 0 for every string made of one repeated character; so the       *)
(* entropy step of evaluate_url does not fail on an empty extracted        *)
(* domain.                                                                 *)
(***************************************************************************)
C11_EntropyDegenerate ==
    /\ (ev.pc = "raised") => ev.s # <<>>
    /\ (ev.pc = "sum" /\ ev.s = <<>>) => ev.keys = <<>>
    /\ (ev.pc = "returned" /\ ev.s = <<>>) => ev.e = 0
    /\ (ev.pc = "returned" /\ Cardinality(Range(ev.s)) = 1) => ev.e = 0
    /\ (ev.via = "evaluate_url" /\ domain_extract(ev.url) = <<>>) => ev.pc # "raised"

\* evaluate_url got through the entropy step on an empty extracted domain
C11_Witness ==
    /\ ev.pc = "returned"
    /\ ev.via = "evaluate_url"
    /\ ev.url = HostEmpty
    /\ ev.s = <<>>
    /\ ev.e = 0

(***************************************************************************)
(* C12: the bundle is complete when the service starts and no later step   *)
(* (cache hit, cache miss, evaluate_url step, failed request) changes any  *)
(* of its five entries or goes back to loading; an artifact that failed to *)
(* load stays None.                                                        *)
(***************************************************************************)
C12_BundleLoadedOnce ==
    /\ [](pc # "load" => Len(model) = Len(LoadOrder))
    /\ [][pc # "load" => (model' = model /\ pc' # "load")]_vars

\* requests failed on a bundle with a missing artifact, which is still missing
C12_Witness ==
    /\ PartialBundle
    /\ model[1] = None
    /\ Len(requests) = MaxRequests
    /\ \A r \in Reqs : Done(r) /\ HasHost(requests[r].query) /\ requests[r].status = HandlerRaised

====
